---- MODULE Spec2Model ----
(***************************************************************************)
(* The filename reconciliation tools of the mirror program                 *)
(* (src/unnamed/part_001): cleanFilename, handleDuplicates,                *)
(* handleXMPRenaming and runCopyMoveOperation, run over one directory.     *)
(*                                                                         *)
(* A file name is a sequence of one-character strings.  A directory is a   *)
(* function from its names to entries; the walk visits the names of the    *)
(* listing taken by filepath.WalkDir in byte order, while os.Stat,         *)
(* os.ReadDir, os.Remove and os.Rename of the callbacks act on the live    *)
(* directory.  Subdirectories are entries of the walked directory: the     *)
(* callbacks return at once for them, and reading one may fail.  The       *)
(* directory holds no symbolic links.                                      *)
(***************************************************************************)
EXTENDS Integers, Sequences, FiniteSets, TLC

VARIABLES
    tool,         \* "clean", "duplicates", "xmp", "copy" or "move"
    apply,        \* applyFlag
    fs,           \* the walked directory: name -> entry
    fs0,          \* the walked directory when the current run started
    dst,          \* the target directory of copy/move: name -> entry
    dst0,         \* the target directory when the current run started
    listing,      \* the names WalkDir read, in the order it visits them
    pos,          \* index in listing of the next entry to visit
    pc,           \* "walk", "done" (summary printed, exit 0) or "exit1"
    out,          \* the decision lines printed on stdout, in order
    errs,         \* the paths of the "Error removing/renaming" lines
    foundChanges, \* the counter foundChanges of the running tool
    skipped,      \* the counter skipped
    copied,       \* the counter copied
    xmpFiles,     \* the pending renames of handleXMPRenaming: set of <<src, dst>>
    walkErrs,     \* how often the walk callback was called with err != nil
    summary,      \* the final summary printed, or NoSummary
    run,          \* 1 for the first run, 2 for a second run on the result
    prev,         \* what the previous run did, or NoRun
    cfIn,         \* the name given to cleanFilename
    cfOut         \* the results of the successive passes of cleanFilename

vars == <<tool, apply, fs, fs0, dst, dst0, listing, pos, pc, out, errs,
          foundChanges, skipped, copied, xmpFiles, walkErrs, summary, run,
          prev, cfIn, cfOut>>

---------------------------------------------------------------------------
(* Bounds *)

\* longest name given to cleanFilename
MaxLen == 6
\* most entries in a directory
MaxFiles == 3
\* file sizes are 1..MaxSize
MaxSize == 2

---------------------------------------------------------------------------
(* Characters and the string functions of the Go library *)

\* the byte value of a character
Ord(c) ==
    CASE c = " " -> 32 [] c = "(" -> 40 [] c = ")" -> 41 [] c = "." -> 46
      [] c = "0" -> 48 [] c = "1" -> 49 [] c = "2" -> 50
      [] c = "A" -> 65 [] c = "J" -> 74
      [] c = "a" -> 97 [] c = "b" -> 98 [] c = "j" -> 106 [] c = "m" -> 109
      [] c = "p" -> 112 [] c = "x" -> 120

\* \d of the regular expression
IsDigit(c) == c \in {"0", "1", "2", "3", "4", "5", "6", "7", "8", "9"}

\* the case folding of strings.EqualFold on the letters used
Fold(c) == CASE c = "A" -> "a" [] c = "J" -> "j" [] OTHER -> c

EqualFold(s, t) ==
    /\ Len(s) = Len(t)
    /\ \A i \in 1..Len(s) : Fold(s[i]) = Fold(t[i])

HasSuffix(s, suf) ==
    /\ Len(s) >= Len(suf)
    /\ SubSeq(s, Len(s) - Len(suf) + 1, Len(s)) = suf

TrimSuffix(s, suf) ==
    IF HasSuffix(s, suf) THEN SubSeq(s, 1, Len(s) - Len(suf)) ELSE s

Contains(s, c) == \E i \in 1..Len(s) : s[i] = c

\* filepath.Ext: the suffix beginning at the last dot, "" without a dot
Ext(s) ==
    IF Contains(s, ".")
    THEN LET i == CHOOSE k \in 1..Len(s) :
                      s[k] = "." /\ \A m \in (k+1)..Len(s) : s[m] # "."
         IN  SubSeq(s, i, Len(s))
    ELSE <<>>

XmpSuffix == <<".", "x", "m", "p">>

\* byte order of two names, the order of os.ReadDir
RECURSIVE Less(_, _)
Less(s, t) ==
    IF s = <<>> THEN t # <<>>
    ELSE IF t = <<>> THEN FALSE
    ELSE IF Head(s) # Head(t) THEN Ord(Head(s)) < Ord(Head(t))
    ELSE Less(Tail(s), Tail(t))

RECURSIVE SortNames(_)
SortNames(S) ==
    IF S = {} THEN <<>>
    ELSE LET m == CHOOSE x \in S : \A y \in S \ {x} : Less(x, y)
         IN  <<m>> \o SortNames(S \ {m})

---------------------------------------------------------------------------
(* cleanFilename: regexp ` ?\(\d+\)`, ReplaceAllString(filename, "") *)

\* the first index from j on that holds no digit
RECURSIVE DigitsEnd(_, _)
DigitsEnd(s, j) ==
    IF j <= Len(s) /\ IsDigit(s[j]) THEN DigitsEnd(s, j + 1) ELSE j

\* the index after a match of \(\d+\) starting at i, 0 when there is none
ParenEnd(s, i) ==
    IF i <= Len(s) /\ s[i] = "("
    THEN LET k == DigitsEnd(s, i + 1)
         IN  IF k > i + 1 /\ k <= Len(s) /\ s[k] = ")" THEN k + 1 ELSE 0
    ELSE 0

\* the index after a match of ` ?\(\d+\)` starting at i, 0 when there is none
MarkerEnd(s, i) ==
    IF i <= Len(s) /\ s[i] = " " /\ ParenEnd(s, i + 1) # 0
    THEN ParenEnd(s, i + 1)
    ELSE ParenEnd(s, i)

\* the leftmost non-overlapping matches from i on, each replaced by ""
RECURSIVE ReplaceAllFrom(_, _)
ReplaceAllFrom(s, i) ==
    IF i > Len(s) THEN <<>>
    ELSE LET e == MarkerEnd(s, i)
         IN  IF e # 0 THEN ReplaceAllFrom(s, e)
             ELSE <<s[i]>> \o ReplaceAllFrom(s, i + 1)

cleanFilename(filename) == ReplaceAllFrom(filename, 1)

\* a name holds a disambiguation marker
HasMarker(s) == \E i \in 1..Len(s) : MarkerEnd(s, i) # 0

---------------------------------------------------------------------------
(* Directories *)

NoEntry == [kind |-> "none", size |-> 0]
File(s) == [kind |-> "file", size |-> s]
\* a directory; os.Stat reports the size of the smallest file for it
Dir == [kind |-> "dir", size |-> 1]

\* the names of the directories of a duplicates run
DupNames ==
    { <<"a">>,
      <<"a", "(", "1", ")">>,
      <<"a", "(", "(", "1", ")", "1", ")">>,
      <<"a", "(", "2", ")", "(", "1", "(", "2", ")", ")">>,
      <<"a", ".", "x", "m", "p">>,
      <<"a", "(", "1", ")", ".", "x", "m", "p">> }

\* the names of the directories of an xmp run
XmpNames ==
    { <<"a", ".", "j">>,
      <<"a", " ", "(", "1", ")", ".", "j">>,
      <<"a", ".", "j", ".", "x", "m", "p">>,
      <<"a", "(", "2", ")", ".", "j", ".", "x", "m", "p">>,
      <<"a", ".", "x", "m", "p">>,
      <<"a", ".", "x", "m", "p", ".", "x", "m", "p">>,
      <<"A", "(", ".", "x", "m", "p">>,
      <<"a", "(">>,
      <<"a", "(", "(", "1", ")">> }

\* the names of the source and target directories of a copy or move run
CopyNames == { <<"a">>, <<"b">> }

EmptyDir == [n \in {} |-> NoEntry]

\* the sets of at most MaxFiles names of U
NameSets(U) == {T \in SUBSET U : Cardinality(T) <= MaxFiles}

\* what an entry of a directory can be, with files of the sizes 1..m
Entries(m) == {File(s) : s \in 1..m} \cup {Dir}

\* os.Stat of a name joined to the directory; the empty name is the
\* directory itself (filepath.Join(dir, "") = dir)
Stat(d, name) ==
    IF name = <<>> THEN Dir
    ELSE IF name \in DOMAIN d THEN d[name]
    ELSE NoEntry

Exists(d, name) == Stat(d, name).kind # "none"

\* the names os.ReadDir returns
EntryNames(d) == DOMAIN d

\* os.Remove of an entry
RemoveEntry(d, name) == [n \in DOMAIN d \ {name} |-> d[n]]

\* an entry is put at a name, replacing what was there
PutEntry(d, name, e) ==
    [n \in DOMAIN d \cup {name} |-> IF n = name THEN e ELSE d[n]]

---------------------------------------------------------------------------
(* Output lines *)

Line(k, p, o, s) == [kind |-> k, path |-> p, other |-> o, size |-> s]

NoSummary == [printed |-> FALSE, count |-> 0, skipped |-> 0, all |-> FALSE]
NoRun == [ran |-> FALSE, apply |-> FALSE, failed |-> FALSE, count |-> 0]

---------------------------------------------------------------------------
(* handleDuplicates *)

NoPair == [pair |-> FALSE, original |-> <<>>, size |-> 0]

\* DupDecision of a callback that does not skip the sidecars
DupDecisionNoXmpSkip(d, baseName) ==
    LET originalName == cleanFilename(baseName)
        info1 == Stat(d, baseName)
        info2 == Stat(d, originalName)
    IN  IF ~Contains(baseName, "(") THEN NoPair
        ELSE IF originalName = baseName THEN NoPair
        ELSE IF ~Exists(d, originalName) THEN NoPair
        ELSE IF info1.kind # "none" /\ info2.kind # "none"
                /\ info1.size = info2.size
             THEN [pair |-> TRUE, original |-> originalName, size |-> info1.size]
             ELSE NoPair

\* the callback up to the size comparison: the pair of baseName, if any
DupDecision(d, baseName) ==
    LET originalName == cleanFilename(baseName)
        info1 == Stat(d, baseName)
        info2 == Stat(d, originalName)
    IN  IF HasSuffix(baseName, XmpSuffix) THEN NoPair
        ELSE IF ~Contains(baseName, "(") THEN NoPair
        ELSE IF originalName = baseName THEN NoPair
        ELSE IF ~Exists(d, originalName) THEN NoPair
        ELSE IF info1.kind # "none" /\ info2.kind # "none"
                /\ info1.size = info2.size
             THEN [pair |-> TRUE, original |-> originalName, size |-> info1.size]
             ELSE NoPair

\* the line the callback prints for the decision r
DupLines(r, baseName) ==
    IF r.pair THEN <<Line("pair", baseName, r.original, r.size)>> ELSE <<>>

\* DupRemoves without the test of the apply flag
DupRemovesAlways(ap, r) == r.pair

\* DupRemoves of a callback that prints the pair and removes nothing
DupRemovesNever(ap, r) == FALSE

\* whether the callback calls os.Remove on the duplicate of a pair
DupRemoves(ap, r) == ap /\ r.pair

\* one call of the walk callback, and for a directory the reading of it
DupVisit ==
    /\ tool = "duplicates"
    /\ pc = "walk"
    /\ pos <= Len(listing)
    /\ LET baseName == listing[pos]
           r == DupDecision(fs, baseName)
       IN  \E ok \in BOOLEAN :
             IF fs0[baseName].kind = "dir"
             THEN /\ walkErrs' = IF ok THEN walkErrs ELSE walkErrs + 1
                  /\ UNCHANGED <<fs, out, errs, foundChanges>>
             ELSE /\ foundChanges' = IF r.pair THEN foundChanges + 1
                                     ELSE foundChanges
                  /\ out' = out \o DupLines(r, baseName)
                  /\ fs' = IF DupRemoves(apply, r) /\ ok
                           THEN RemoveEntry(fs, baseName) ELSE fs
                  /\ errs' = IF DupRemoves(apply, r) /\ ~ok
                             THEN errs \cup {baseName} ELSE errs
                  /\ UNCHANGED walkErrs
    /\ pos' = pos + 1
    /\ UNCHANGED <<tool, apply, fs0, dst, dst0, listing, pc, skipped, copied,
                   xmpFiles, summary, run, prev, cfIn, cfOut>>

\* after the walk: the callback never returns an error, so err is nil
DupFinish ==
    /\ tool = "duplicates"
    /\ pc = "walk"
    /\ pos > Len(listing)
    /\ pc' = "done"
    /\ summary' = [printed |-> TRUE, count |-> foundChanges, skipped |-> 0,
                   all |-> foundChanges # 0 /\ apply]
    /\ UNCHANGED <<tool, apply, fs, fs0, dst, dst0, listing, pos, out, errs,
                   foundChanges, skipped, copied, xmpFiles, walkErrs, run,
                   prev, cfIn, cfOut>>

---------------------------------------------------------------------------
(* handleXMPRenaming *)

\* the first name of a set in the order of os.ReadDir
FirstName(S) == CHOOSE x \in S : \A y \in S \ {x} : Less(x, y)

\* the entries the three loops over os.ReadDir(dirPath) accept: not a
\* directory, not a sidecar, the extension imageExt and the clean stem
\* cleanBaseOnly, both compared by strings.EqualFold
ImageEntries(d, imageExt, cleanBaseOnly) ==
    { n \in EntryNames(d) :
        /\ d[n].kind # "dir"
        /\ ~HasSuffix(n, XmpSuffix)
        /\ EqualFold(Ext(n), imageExt)
        /\ EqualFold(cleanFilename(TrimSuffix(n, Ext(n))), cleanBaseOnly) }

\* the test of the loops for a numbered variant
IsNumbered(n) == Contains(n, "(")

\* foundImage: the first numbered entry, else the first clean one, else ""
FoundImage(d, imageExt, cleanBaseOnly) ==
    LET images   == ImageEntries(d, imageExt, cleanBaseOnly)
        numbered == {n \in images : IsNumbered(n)}
        clean    == {n \in images : ~IsNumbered(n)}
    IN  IF numbered # {} THEN FirstName(numbered)
        ELSE IF clean # {} THEN FirstName(clean)
        ELSE <<>>

\* both a clean and a numbered image exist
BothVariants(d, imageExt, cleanBaseOnly) ==
    LET images == ImageEntries(d, imageExt, cleanBaseOnly)
    IN  /\ \E n \in images : ~IsNumbered(n)
        /\ \E n \in images : IsNumbered(n)

\* ExactImageExists of a callback that leaves the first check out
ExactImageIgnored(d, imageBase) == FALSE

\* the check that the exact image of the sidecar exists
ExactImageExists(d, imageBase) == Exists(d, imageBase)

\* ExactMissingAgain of a callback that trusts the image it found
ExactMissingTrusted(d, imageBase) == FALSE

\* the second check of the exact image, after an image was found
ExactMissingAgain(d, imageBase) == ~Exists(d, imageBase)

XmpAct(a, t) == [act |-> a, target |-> t]

\* the path the callback takes for the file baseName:
\*   "other"      not a sidecar
\*   "exact"      the exact image exists
\*   "ambiguous"  a clean and a numbered image exist
\*   "orphan"     no image found, or the exact image is missing: [REMOVE]
\*   "named"      the sidecar has the correct name already
\*   "caseskip"   the destination exists in another case
\*   "destorphan" the destination exists and its image does not
\*   "skip"       the destination exists: [SKIP]
\*   "rename"     recorded in xmpFiles
XmpDecision(d, baseName) ==
    LET imageBase      == TrimSuffix(baseName, XmpSuffix)
        cleanBase      == cleanFilename(imageBase)
        imageExt       == Ext(imageBase)
        cleanBaseOnly  == TrimSuffix(cleanBase, Ext(cleanBase))
        foundImage     == FoundImage(d, imageExt, cleanBaseOnly)
        correctXMPName == foundImage \o XmpSuffix
        existing       == {n \in EntryNames(d) : EqualFold(n, correctXMPName)}
    IN  IF ~HasSuffix(baseName, XmpSuffix) THEN XmpAct("other", <<>>)
        ELSE IF ExactImageExists(d, imageBase) THEN XmpAct("exact", <<>>)
        ELSE IF BothVariants(d, imageExt, cleanBaseOnly)
             THEN XmpAct("ambiguous", <<>>)
        ELSE IF foundImage = <<>> THEN XmpAct("orphan", baseName)
        ELSE IF ExactMissingAgain(d, imageBase) THEN XmpAct("orphan", baseName)
        ELSE IF baseName = correctXMPName THEN XmpAct("named", <<>>)
        ELSE IF existing # {}
             THEN IF FirstName(existing) # correctXMPName
                  THEN XmpAct("caseskip", <<>>)
                  ELSE IF ~Exists(d, foundImage)
                       THEN XmpAct("destorphan", correctXMPName)
                       ELSE XmpAct("skip", correctXMPName)
        ELSE XmpAct("rename", correctXMPName)

\* the line the callback prints for the decision r; removed tells whether
\* an os.Remove it called succeeded
XmpLines(r, baseName, ap, removed) ==
    CASE r.act = "orphan" -> <<Line("remove", baseName, <<>>, 0)>>
      [] r.act = "destorphan" /\ (~ap \/ removed) ->
           <<Line("remove", r.target, <<>>, 0)>>
      [] r.act = "skip" -> <<Line("skip", baseName, r.target, 0)>>
      [] r.act = "rename" -> <<Line("rename", baseName, r.target, 0)>>
      [] OTHER -> <<>>

\* XmpRemoves of a callback that forgets the removal of an orphan
XmpRemovesDestOnly(ap, r) == ap /\ r.act = "destorphan"

\* whether the callback calls os.Remove on the target of its decision
XmpRemoves(ap, r) == ap /\ r.act \in {"orphan", "destorphan"}

\* one call of the walk callback, and for a directory the reading of it
XmpVisit ==
    /\ tool = "xmp"
    /\ pc = "walk"
    /\ pos <= Len(listing)
    /\ LET baseName == listing[pos]
           r == XmpDecision(fs, baseName)
       IN  \E ok \in BOOLEAN :
             IF fs0[baseName].kind = "dir"
             THEN /\ walkErrs' = IF ok THEN walkErrs ELSE walkErrs + 1
                  /\ UNCHANGED <<fs, out, errs, foundChanges, skipped, xmpFiles>>
             ELSE /\ foundChanges' =
                        IF \/ r.act \in {"orphan", "rename"}
                           \/ r.act = "destorphan" /\ ~apply
                        THEN foundChanges + 1 ELSE foundChanges
                  /\ skipped' = IF r.act = "skip" THEN skipped + 1 ELSE skipped
                  /\ out' = out \o XmpLines(r, baseName, apply, ok)
                  /\ xmpFiles' = IF r.act = "rename"
                                 THEN {p \in xmpFiles : p[1] # baseName}
                                        \cup {<<baseName, r.target>>}
                                 ELSE xmpFiles
                  /\ fs' = IF XmpRemoves(apply, r) /\ ok
                           THEN RemoveEntry(fs, r.target) ELSE fs
                  /\ errs' = IF XmpRemoves(apply, r) /\ ~ok
                             THEN errs \cup {r.target} ELSE errs
                  /\ UNCHANGED walkErrs
    /\ pos' = pos + 1
    /\ UNCHANGED <<tool, apply, fs0, dst, dst0, listing, pc, copied, summary,
                   run, prev, cfIn, cfOut>>

\* os.Rename of each pending rename in the order order; those of failing fail
RECURSIVE RenameAll(_, _, _)
RenameAll(d, order, failing) ==
    IF order = <<>> THEN [fs |-> d, errs |-> {}]
    ELSE LET src  == Head(order)[1]
             to   == Head(order)[2]
             bad  == \/ src \in failing
                     \/ ~Exists(d, src)
                     \/ Stat(d, to).kind = "dir"
             d1   == IF bad THEN d
                     ELSE RemoveEntry(PutEntry(d, to, d[src]), src)
             rest == RenameAll(d1, Tail(order), failing)
         IN  [fs |-> rest.fs,
              errs |-> IF bad THEN rest.errs \cup {src} ELSE rest.errs]

\* the orders in which a range over the map xmpFiles can yield its pairs
RangeOrders(m) ==
    {o \in [1..Cardinality(m) -> m] : \A i, j \in DOMAIN o : i # j => o[i] # o[j]}

\* after the walk: the renames in apply mode, then the summary
XmpFinish ==
    /\ tool = "xmp"
    /\ pc = "walk"
    /\ pos > Len(listing)
    /\ \E order \in RangeOrders(xmpFiles), failing \in SUBSET {p[1] : p \in xmpFiles} :
         LET res == IF apply THEN RenameAll(fs, order, failing)
                    ELSE [fs |-> fs, errs |-> {}]
         IN  /\ fs' = res.fs
             /\ errs' = errs \cup res.errs
    /\ pc' = "done"
    /\ summary' = [printed |-> TRUE, count |-> foundChanges, skipped |-> skipped,
                   all |-> foundChanges > 0 /\ apply]
    /\ UNCHANGED <<tool, apply, fs0, dst, dst0, listing, pos, out,
                   foundChanges, skipped, copied, xmpFiles, walkErrs, run,
                   prev, cfIn, cfOut>>

---------------------------------------------------------------------------
(* runCopyMoveOperation: the second pass over the source directory fs *)

\* one call of the walk callback, and for a directory the reading of it;
\* res is the outcome of MkdirAll, moveFile or copyFile, readOk that of
\* reading a subdirectory; os.Stat of the destination fails only when the
\* destination does not exist
CopyVisit ==
    /\ tool \in {"copy", "move"}
    /\ pc = "walk"
    /\ pos <= Len(listing)
    /\ LET rel      == listing[pos]
           isDir    == fs0[rel].kind = "dir"
           exists   == Exists(dst, rel)
           mutates  == ~exists /\ apply
       IN  \E res \in {"ok", "fail", "partial"}, readOk \in BOOLEAN :
             /\ skipped' = IF exists /\ ~isDir THEN skipped + 1 ELSE skipped
             /\ copied' = IF ~exists /\ ~isDir THEN copied + 1 ELSE copied
             /\ out' = IF exists /\ ~isDir
                       THEN Append(out, Line("SKIP", rel, <<>>, 0))
                       ELSE IF ~exists /\ ~isDir /\ ~apply
                       THEN Append(out, Line(IF tool = "move" THEN "MOVE" ELSE "COPY",
                                             rel, <<>>, 0))
                       ELSE out
             /\ dst' = IF mutates /\ res = "ok"
                       THEN PutEntry(dst, rel, fs[rel])
                       ELSE IF mutates /\ ~isDir /\ tool = "copy" /\ res = "partial"
                       THEN PutEntry(dst, rel, File(0))
                       ELSE dst
             /\ fs' = IF mutates /\ ~isDir /\ tool = "move" /\ res = "ok"
                      THEN RemoveEntry(fs, rel) ELSE fs
             /\ walkErrs' = IF isDir /\ ~(mutates /\ res # "ok") /\ ~readOk
                            THEN walkErrs + 1 ELSE walkErrs
             /\ pc' = IF \/ mutates /\ res # "ok"
                         \/ isDir /\ ~readOk
                      THEN "exit1" ELSE "walk"
    /\ pos' = pos + 1
    /\ UNCHANGED <<tool, apply, fs0, dst0, listing, errs, foundChanges,
                   xmpFiles, summary, run, prev, cfIn, cfOut>>

\* after a walk that returned no error: the summary
CopyFinish ==
    /\ tool \in {"copy", "move"}
    /\ pc = "walk"
    /\ pos > Len(listing)
    /\ pc' = "done"
    /\ summary' = [printed |-> TRUE, count |-> copied,
                   skipped |-> IF apply THEN skipped ELSE 0, all |-> apply]
    /\ UNCHANGED <<tool, apply, fs, fs0, dst, dst0, listing, pos, out, errs,
                   foundChanges, skipped, copied, xmpFiles, walkErrs, run,
                   prev, cfIn, cfOut>>

---------------------------------------------------------------------------
(* Runs *)

\* the state in which main starts the tool t on the directories d and target
Start(t, ap, d, target) ==
    /\ tool = t
    /\ apply = ap
    /\ fs = d
    /\ fs0 = d
    /\ dst = target
    /\ dst0 = target
    /\ listing = SortNames(EntryNames(d))
    /\ pos = 1
    /\ pc = "walk"
    /\ out = <<>>
    /\ errs = {}
    /\ foundChanges = 0
    /\ skipped = 0
    /\ copied = 0
    /\ xmpFiles = {}
    /\ walkErrs = 0
    /\ summary = NoSummary

Init ==
    /\ run = 1
    /\ prev = NoRun
    /\ cfIn = <<>>
    /\ cfOut = <<>>
    /\ \E ap \in BOOLEAN :
         \/ \E T \in NameSets(DupNames) : \E d \in [T -> Entries(MaxSize)] :
               Start("duplicates", ap, d, EmptyDir)
         \/ \E T \in NameSets(XmpNames) : \E d \in [T -> Entries(1)] :
               Start("xmp", ap, d, EmptyDir)
         \/ \E t \in {"copy", "move"}, T \in NameSets(CopyNames),
               U \in NameSets(CopyNames) :
               \E d \in [T -> Entries(MaxSize)], target \in [U -> Entries(1)] :
                 Start(t, ap, d, target)

\* the same tool is run again on the directory the finished run left
Rerun ==
    /\ tool \in {"duplicates", "xmp"}
    /\ pc = "done"
    /\ run = 1
    /\ run' = run + 1
    /\ prev' = [ran |-> TRUE, apply |-> apply, failed |-> errs # {},
                count |-> foundChanges]
    /\ \E ap \in BOOLEAN : apply' = ap
    /\ fs0' = fs
    /\ listing' = SortNames(EntryNames(fs))
    /\ pos' = 1
    /\ pc' = "walk"
    /\ out' = <<>>
    /\ errs' = {}
    /\ foundChanges' = 0
    /\ skipped' = 0
    /\ xmpFiles' = {}
    /\ walkErrs' = 0
    /\ summary' = NoSummary
    /\ UNCHANGED <<tool, fs, dst, dst0, copied, cfIn, cfOut>>

Next ==
    \/ DupVisit
    \/ DupFinish
    \/ XmpVisit
    \/ XmpFinish
    \/ CopyVisit
    \/ CopyFinish
    \/ Rerun

Spec == Init /\ [][Next]_vars

---------------------------------------------------------------------------
(* cleanFilename applied to every short name, pass after pass *)

CleanAlphabet == {"a", " ", "(", "1", ")"}

MaxPasses == 2

InitClean ==
    /\ tool = "clean"
    /\ apply = FALSE
    /\ fs = EmptyDir
    /\ fs0 = EmptyDir
    /\ dst = EmptyDir
    /\ dst0 = EmptyDir
    /\ listing = <<>>
    /\ pos = 1
    /\ pc = "done"
    /\ out = <<>>
    /\ errs = {}
    /\ foundChanges = 0
    /\ skipped = 0
    /\ copied = 0
    /\ xmpFiles = {}
    /\ walkErrs = 0
    /\ summary = NoSummary
    /\ run = 1
    /\ prev = NoRun
    /\ cfIn \in UNION {[1..k -> CleanAlphabet] : k \in 0..MaxLen}
    /\ cfOut = <<>>

\* one more pass: cleanFilename of the name, or of the last result
CleanPass ==
    /\ tool = "clean"
    /\ Len(cfOut) < MaxPasses
    /\ cfOut' = Append(cfOut, cleanFilename(IF cfOut = <<>> THEN cfIn
                                             ELSE cfOut[Len(cfOut)]))
    /\ UNCHANGED <<tool, apply, fs, fs0, dst, dst0, listing, pos, pc, out,
                   errs, foundChanges, skipped, copied, xmpFiles, walkErrs,
                   summary, run, prev, cfIn>>

NextClean == CleanPass

SpecClean == InitClean /\ [][NextClean]_vars

---------------------------------------------------------------------------
(* Notions the properties share *)

\* the names the walk has visited
Visited == {listing[i] : i \in 1..(pos - 1)}

\* the lines printed about the file n
LinesAbout(n) == {i \in 1..Len(out) : out[i].path = n}

\* the files of the directory at the start of the run that are gone
Deleted == DOMAIN fs0 \ DOMAIN fs

\* the sidecars the walk has visited: files whose name ends in .xmp
VisitedSidecars ==
    {n \in Visited : fs0[n].kind = "file" /\ HasSuffix(n, XmpSuffix)}

\* the name of a sidecar without its suffix
ImageBase(n) == TrimSuffix(n, XmpSuffix)

\* the siblings that have the declared extension and the canonical stem
\* of the sidecar n
Candidates(d, n) ==
    ImageEntries(d, Ext(ImageBase(n)),
                 TrimSuffix(cleanFilename(ImageBase(n)),
                            Ext(cleanFilename(ImageBase(n)))))

---------------------------------------------------------------------------
(* C1 *)

\* C1: cleanFilename is idempotent: a second pass over the result of the
\* first pass changes nothing.
C1_CleanIdempotent ==
    Len(cfOut) >= 2 => cfOut[2] = cfOut[1]

---------------------------------------------------------------------------
(* C2 *)

\* C2: handleDuplicates prints a pair for an entry only if the sibling named
\* cleanFilename(entry) exists, is a regular file and has the same size;
\* an entry without such a sibling gets no pair and is not removed.
C2_PairOnlyWithRegularSibling ==
    tool = "duplicates" =>
      \A n \in Visited :
        LET sibling == Stat(fs0, cleanFilename(n))
            regular == sibling.kind = "file" /\ sibling.size = fs0[n].size
        IN  /\ LinesAbout(n) # {} => regular
            /\ ~regular => n \in DOMAIN fs

---------------------------------------------------------------------------
(* C3 *)

\* C3: in an apply run of handleDuplicates the files deleted are duplicates
\* of printed pairs, and no file printed as the original of a pair is
\* deleted.
C3_OriginalNeverDeleted ==
    tool = "duplicates" /\ apply =>
      /\ \A n \in Deleted : \E i \in 1..Len(out) : out[i].path = n
      /\ \A i \in 1..Len(out) : out[i].other \notin Deleted

---------------------------------------------------------------------------
(* C4 *)

\* C4: without the apply flag no tool changes the walked directory or the
\* target directory: both are as they were when the run started.
C4_PreviewNeverMutates ==
    ~apply => fs = fs0 /\ dst = dst0

\* a finished preview run that printed decisions
C4_Witness ==
    /\ ~apply
    /\ pc = "done"
    /\ out # <<>>
    /\ tool \in {"duplicates", "xmp", "copy", "move"}

---------------------------------------------------------------------------
(* C5 *)

\* C5: a visited sidecar without its exact image, whose candidates hold a
\* name without a marker and a name with a marker, gets no line and stays.
C5_AmbiguousUntouched ==
    tool = "xmp" =>
      \A n \in VisitedSidecars :
        ( /\ ~Exists(fs, ImageBase(n))
          /\ \E c \in Candidates(fs, n) : ~HasMarker(c)
          /\ \E c \in Candidates(fs, n) : HasMarker(c) )
        => n \in DOMAIN fs /\ LinesAbout(n) = {}

---------------------------------------------------------------------------
(* C6 *)

\* the printed lines that count as a change
ChangeLines == {i \in 1..Len(out) : out[i].kind \in {"remove", "rename"}}

---------------------------------------------------------------------------
(* C7 *)

\* C7: a visited sidecar without its exact image and without a candidate
\* gets exactly one [REMOVE] line; in apply mode it is the file given to
\* os.Remove, so it is gone unless that call failed, and in preview mode it
\* stays; no file that is not a sidecar is ever removed or changed.
C7_OrphanRemoved ==
    tool = "xmp" =>
      /\ \A n \in VisitedSidecars :
           (~Exists(fs, ImageBase(n)) /\ Candidates(fs, n) = {}) =>
             /\ Cardinality({i \in LinesAbout(n) : out[i].kind = "remove"}) = 1
             /\ Cardinality(LinesAbout(n)) = 1
             /\ apply => (n \notin DOMAIN fs \/ n \in errs)
             /\ ~apply => n \in DOMAIN fs
      /\ \A m \in DOMAIN fs0 :
           ~HasSuffix(m, XmpSuffix) => m \in DOMAIN fs /\ fs[m] = fs0[m]

\* an apply run removed an orphaned sidecar beside a file that is no
\* candidate for it
C7_Witness ==
    /\ tool = "xmp"
    /\ apply
    /\ pc = "done"
    /\ \E n \in VisitedSidecars :
         /\ ~Exists(fs, ImageBase(n))
         /\ Candidates(fs, n) = {}
         /\ n \in Deleted
         /\ \E m \in DOMAIN fs : fs[m].kind = "file" /\ ~HasSuffix(m, XmpSuffix)

---------------------------------------------------------------------------
(* C8 *)

\* the lines a preview run prints for the entries names of the directory d
RECURSIVE PreviewLines(_, _, _)
PreviewLines(t, d, names) ==
    IF names = <<>> THEN <<>>
    ELSE LET n == Head(names)
             lines == IF d[n].kind = "dir" THEN <<>>
                      ELSE IF t = "duplicates"
                      THEN DupLines(DupDecision(d, n), n)
                      ELSE XmpLines(XmpDecision(d, n), n, FALSE, FALSE)
         IN  lines \o PreviewLines(t, d, Tail(names))

\* C8: an apply run prints, entry by entry, the decisions a preview run
\* prints for the same directory, and counts the same changes.
C8_ApplyDecidesAsPreview ==
    (tool \in {"duplicates", "xmp"} /\ apply) =>
      LET preview == PreviewLines(tool, fs0, SubSeq(listing, 1, pos - 1))
      IN  /\ out = preview
          /\ foundChanges =
               Cardinality({i \in 1..Len(preview) : preview[i].kind # "skip"})

---------------------------------------------------------------------------
(* C9 *)

\* C9: after an apply run in which no removal or rename failed, a second
\* run of the same tool prints no decision, counts no change and leaves
\* the directory as it found it.
C9_SecondRunIdle ==
    (run = 2 /\ prev.apply /\ ~prev.failed) =>
      /\ out = <<>>
      /\ foundChanges = 0
      /\ skipped = 0
      /\ xmpFiles = {}
      /\ errs = {}
      /\ fs = fs0

\* a second run, in apply mode, has finished on a non-empty directory left
\* by an apply run that made changes and met no failure
C9_Witness ==
    /\ run = 2
    /\ prev.apply
    /\ ~prev.failed
    /\ prev.count > 0
    /\ apply
    /\ pc = "done"
    /\ \E n \in Visited : fs0[n].kind = "file" /\ HasMarker(n)

---------------------------------------------------------------------------
(* C10 *)

\* C10: once the walk callback of handleDuplicates or handleXMPRenaming was
\* called with an error, the run is aborted: the process has exited with
\* status 1 and no summary is printed.
C10_WalkErrorAborts ==
    (tool \in {"duplicates", "xmp"} /\ walkErrs > 0) =>
      pc = "exit1" /\ ~summary.printed

---------------------------------------------------------------------------
(* C11 *)

\* C11: the final summary of an apply run of handleDuplicates or
\* handleXMPRenaming counts the entries whose removal or rename succeeded,
\* and does not say that all were removed when a removal failed.
C11_SummaryCountsSuccesses ==
    (tool \in {"duplicates", "xmp"} /\ apply /\ pc = "done") =>
      /\ summary.count = Cardinality(Deleted)
      /\ errs # {} => ~summary.all

---------------------------------------------------------------------------
(* C12 *)

\* the lines an apply run prints for the entries names when every
\* os.Remove it calls succeeds; d0 is the directory the walk listed, d the
\* directory as the removals so far left it
RECURSIVE SuccessLines(_, _, _, _)
SuccessLines(t, d0, d, names) ==
    IF names = <<>> THEN <<>>
    ELSE LET n  == Head(names)
             rd == DupDecision(d, n)
             rx == XmpDecision(d, n)
             lines == IF d0[n].kind = "dir" THEN <<>>
                      ELSE IF t = "duplicates" THEN DupLines(rd, n)
                      ELSE XmpLines(rx, n, TRUE, TRUE)
             d1 == IF d0[n].kind = "dir" THEN d
                   ELSE IF t = "duplicates"
                   THEN IF DupRemoves(TRUE, rd) THEN RemoveEntry(d, n) ELSE d
                   ELSE IF XmpRemoves(TRUE, rx) THEN RemoveEntry(d, rx.target)
                   ELSE d
         IN  lines \o SuccessLines(t, d0, d1, Tail(names))

\* a failed os.Remove or os.Rename does not end the run: the process has
\* not exited with status 1, and it is done only after the last entry
RunGoesOn ==
    (tool \in {"duplicates", "xmp"} /\ errs # {}) =>
      /\ pc \in {"walk", "done"}
      /\ pc = "done" => pos > Len(listing) /\ summary.printed

\* C12: a failed removal or rename does not end an apply run, and the
\* entries visited are decided as they are when every removal succeeds (a
\* removal that fails leaves the directory as one that is not attempted).
C12_FailureChangesNoDecision ==
    (tool \in {"duplicates", "xmp"} /\ apply) =>
      /\ RunGoesOn
      /\ out = SuccessLines(tool, fs0, fs0, SubSeq(listing, 1, pos - 1))

---------------------------------------------------------------------------
(* C13 *)

\* the test of the callback for a clean and a numbered image of n
Ambiguous(d, n) ==
    BothVariants(d, Ext(ImageBase(n)),
                 TrimSuffix(cleanFilename(ImageBase(n)),
                            Ext(cleanFilename(ImageBase(n)))))

---------------------------------------------------------------------------
(* C14 *)

\* C14: the two tools change disjoint sets of files.  handleXMPRenaming
\* removes or renames only files whose name ends in .xmp: every other file
\* and every directory stays as it was and no name appears.
\* handleDuplicates removes only files whose name does not end in .xmp and
\* is changed by cleanFilename, and it adds or changes nothing.
C14_ToolsMutateDisjointFiles ==
    /\ tool = "xmp" =>
         /\ \A n \in DOMAIN fs0 :
              (~HasSuffix(n, XmpSuffix) \/ fs0[n].kind = "dir") =>
                n \in DOMAIN fs /\ fs[n] = fs0[n]
         /\ \A n \in DOMAIN fs : n \in DOMAIN fs0 /\ fs[n] = fs0[n]
    /\ tool = "duplicates" =>
         /\ \A n \in Deleted :
              /\ ~HasSuffix(n, XmpSuffix)
              /\ cleanFilename(n) # n
              /\ fs0[n].kind = "file"
         /\ \A n \in DOMAIN fs : n \in DOMAIN fs0 /\ fs[n] = fs0[n]

\* an apply run of handleDuplicates visited a marked sidecar whose clean
\* sibling has its size, and left it
C14_Witness ==
    /\ tool = "duplicates"
    /\ apply
    /\ pc = "done"
    /\ \E n \in Visited \cap DOMAIN fs :
         /\ HasSuffix(n, XmpSuffix)
         /\ cleanFilename(n) # n
         /\ fs[n].kind = "file"
         /\ Exists(fs, cleanFilename(n))
         /\ Stat(fs, cleanFilename(n)).size = fs[n].size
         /\ n \notin errs

====
